---- MODULE Spec2Model ----
(***************************************************************************)
(* Model of the usage/cost generation and aggregation engine of the        *)
(* household utility dashboard (src/utils.py, src/sidebar.py,              *)
(* src/orkunotkun_app.py).                                                 *)
(*                                                                         *)
(* Numbers.  The program computes in binary floating point; the model      *)
(* computes the same expressions over the exact rationals.  Every value    *)
(* of a table is a linear form                                             *)
(*        k / KDen  +  q / QDen  +  (e / EDen) * scale                     *)
(* kept as the record [k, q, e] of its three integer coefficients:         *)
(*   k  the part that is a decimal fraction (base series, fixed costs),    *)
(*   q  the part that comes from MONTHLY_EQUALIZATION / days-in-month,     *)
(*   e  the part that is a multiple of the table's normalisation factor    *)
(*      `scale' (a rational [num, den], see scaling_factor).               *)
(* Units: electricity quantities have KDen = 10 (0.1 kWh) and EDen = 1,    *)
(* water quantities KDen = 1000 (litres), money KDen = 1000, EDen = 10.    *)
(* Sums and products by constants act on the coefficients; sign tests and  *)
(* comparisons of e-parts are done by cross multiplication.                *)
(***************************************************************************)
EXTENDS Integers, Sequences, FiniteSets, TLC

VARIABLES
    has_hot_tub,    \* st.session_state.has_hot_tub
    hot_tub_type,   \* st.session_state.hot_tub_type
    has_ev,         \* st.session_state.has_ev
    has_heat_pump,  \* st.session_state.has_heat_pump
    force_rerun,    \* st.session_state.force_rerun
    base_data,      \* st.session_state['base_data'] (Absent when not set)
    date_key,       \* st.session_state['date_key']  (Absent when not set)
    rng,            \* state of the process-wide np.random generator
    time_grain,     \* st.session_state.time_grain
    df,             \* main's local df: the table generate_data returned to this run
    agg,            \* main's local aggregated_df of this run
    error,          \* st.error shown by this run
    calls           \* number of generate_data calls made so far

vars == <<has_hot_tub, hot_tub_type, has_ev, has_heat_pump, force_rerun,
          base_data, date_key, rng, time_grain, df, agg, error, calls>>

\* Python's None as a value of hot_tub_type
None == "None"
\* a key that is not in st.session_state, a table that does not exist yet
\* (the default '' of session_state.get('date_key', '') is the same value)
Absent == << >>

----------------------------------------------------------------------------
(* Bounds of the model *)

MaxDays == 3
MaxCalls == 2
RngMod == 3

----------------------------------------------------------------------------
(* Program constants, src/utils.py:53-64 *)

DAILY_FIXED_COST == 100
MONTHLY_EQUALIZATION == 200
ELECTRICITY_UNIT_COST == 7
HOT_WATER_UNIT_COST == 150
\* TAX_RATE = 0.10, as the rational TaxRateNum / TaxRateDen
TaxRateNum == 1
TaxRateDen == 10
\* EV_DAILY_KWH = 10.0, in 0.1 kWh
EV_DAILY_KWH == 100
\* ELECTRIC_HOT_TUB_DAILY_KWH = 8.0, in 0.1 kWh
ELECTRIC_HOT_TUB_DAILY_KWH == 80
\* GEOTHERMAL_HOT_TUB_DAILY_M3 = 0.2, in litres
GEOTHERMAL_HOT_TUB_DAILY_M3 == 200
\* HEAT_PUMP_ELEC_REDUCTION_KWH = 3.0, in 0.1 kWh
HEAT_PUMP_ELEC_REDUCTION_KWH == 30
\* HEAT_PUMP_WATER_REDUCTION_M3 = 0.05, in litres
HEAT_PUMP_WATER_REDUCTION_M3 == 50

Categories ==
    << "energy_ev", "energy_hot_tub", "energy_refrigerator", "energy_freezer",
       "energy_cooker", "energy_dishwasher", "energy_washing_machine",
       "energy_dryer", "energy_lighting", "energy_heating", "energy_other" >>

CategorySet == { Categories[i] : i \in 1..Len(Categories) }

ENERGY_CATEGORIES ==
    [ c \in CategorySet |->
        CASE c = "energy_ev" -> 266
          [] c = "energy_hot_tub" -> 213
          [] c = "energy_refrigerator" -> 40
          [] c = "energy_freezer" -> 53
          [] c = "energy_cooker" -> 32
          [] c = "energy_dishwasher" -> 26
          [] c = "energy_washing_machine" -> 21
          [] c = "energy_dryer" -> 66
          [] c = "energy_lighting" -> 26
          [] c = "energy_heating" -> 80
          [] c = "energy_other" -> 53 ]

GatedCategories == { "energy_ev", "energy_hot_tub" }

\* the categories of the loop of src/utils.py:164-184, in dict order
LoopCategories == SelectSeq(Categories, LAMBDA c : c \notin GatedCategories)

----------------------------------------------------------------------------
(* Denominators of the number representation *)

\* least common multiple of 28, 29, 30, 31
QDen == 377580
KElec == 10
KWater == 1000
KMoney == 1000
EMoney == 10

Zero == [k |-> 0, q |-> 0, e |-> 0]
NumAdd(x, y) == [k |-> x.k + y.k, q |-> x.q + y.q, e |-> x.e + y.e]

\* a pandas Series or numpy array: the values of q, computed once and stored
Series(q) == q \o << >>

----------------------------------------------------------------------------
(* Calendar: dates are day numbers counted from 1970-01-01 *)

DaysFromCivil(y, m, d) ==
    LET yy  == IF m <= 2 THEN y - 1 ELSE y
        era == yy \div 400
        yoe == yy - era * 400
        mp  == IF m > 2 THEN m - 3 ELSE m + 9
        doy == (153 * mp + 2) \div 5 + d - 1
        doe == yoe * 365 + yoe \div 4 - yoe \div 100 + doy
    IN  era * 146097 + doe - 719468

\* the inverse of DaysFromCivil, in the stages of the same algorithm
CivilFromMp(yy, doy, mp) ==
    [ year  |-> yy + (IF mp < 10 THEN 0 ELSE 1),
      month |-> IF mp < 10 THEN mp + 3 ELSE mp - 9,
      day   |-> doy - (153 * mp + 2) \div 5 + 1 ]

CivilFromDoy(yy, doy) == CivilFromMp(yy, doy, (5 * doy + 2) \div 153)

CivilFromYoe(era, doe, yoe) ==
    CivilFromDoy(yoe + era * 400, doe - (365 * yoe + yoe \div 4 - yoe \div 100))

CivilFromDoe(era, doe) ==
    CivilFromYoe(era, doe,
                 (doe - doe \div 1460 + doe \div 36524 - doe \div 146096) \div 365)

CivilFromEra(zz, era) == CivilFromDoe(era, zz - era * 146097)

CivilFromDays(z) == CivilFromEra(z + 719468, (z + 719468) \div 146097)

Year(z) == CivilFromDays(z).year
Month(z) == CivilFromDays(z).month

IsLeap(y) == (y % 4 = 0 /\ y % 100 # 0) \/ y % 400 = 0

\* length of the month of the civil date c
MonthLength(c) ==
    IF c.month = 2 THEN (IF IsLeap(c.year) THEN 29 ELSE 28)
    ELSE IF c.month \in {4, 6, 9, 11} THEN 30 ELSE 31

\* dt.daysinmonth
DaysInMonth(z) == MonthLength(CivilFromDays(z))

\* Monday = 0 .. Sunday = 6; 1970-01-01 was a Thursday
Weekday(z) == (z + 3) % 7

\* dt.isocalendar(): the ISO year and week are those of the week's Thursday
IsoWeekOf(thursday, y) ==
    [ year |-> y, week |-> (thursday - DaysFromCivil(y, 1, 1)) \div 7 + 1 ]

IsoCalendar(z) == IsoWeekOf(z - Weekday(z) + 3, Year(z - Weekday(z) + 3))

\* pd.date_range(start, end): the inclusive day sequence, empty when start > end
date_range(start, end) ==
    Series([ i \in 1..(IF end >= start THEN end - start + 1 ELSE 0) |-> start + i - 1 ])

\* f"{start_date}_{end_date}": the two ISO dates, year-month-day
DateKey(start, end) == << CivilFromDays(start), CivilFromDays(end) >>

----------------------------------------------------------------------------
(* The random generator.  np.random is one deterministic generator for the  *)
(* whole process, seeded once at import (src/utils.py:8); every drawn       *)
(* number advances its state.  The model keeps that structure with a small  *)
(* additive generator (RngMod states) and finite sample tables.             *)

RngSeed == 42

\* the state of the generator after i draws from state s
RngAt(s, i) == (s + 7 * i) % RngMod

\* samples of np.random.normal(15, 3), in kWh; -300 stands for the lower tail,
\* far enough down for the floor at zero to act on a range of MaxDays days
NormalElecVals == << 15, 18, -300, 12 >>
\* samples of np.random.normal(0.3, 0.05), in 0.01 m3
NormalWaterVals == << 30, -10, 2, 35 >>
\* samples of np.random.uniform(0.8, 1.2), in fifths
UniformVals == << 4, 5, 6 >>

Sample(vals, s) == vals[(s % Len(vals)) + 1]

\* np.random.<dist>(..., n) drawn from state s after `skip' earlier draws
DrawSeq(vals, s, skip, n) == Series([ i \in 1..n |-> Sample(vals, RngAt(s, skip + i)) ])

----------------------------------------------------------------------------
(* generate_data, src/utils.py:97-219 *)

\* seasonal factors in tenths, src/utils.py:108-111
winter_elec_factor(m) == IF m \in {12, 1, 2} THEN 15 ELSE 10
fall_spring_elec_factor(m) == IF m \in {3, 4, 10, 11} THEN 12 ELSE 10
winter_water_factor(m) == IF m \in {12, 1, 2} THEN 13 ELSE 10
fall_spring_water_factor(m) == IF m \in {3, 4, 10, 11} THEN 11 ELSE 10

\* src/utils.py:115-118: the preferences as generate_data reads them
ReadPreferences(ss) ==
    [ has_hot_tub   |-> ss.has_hot_tub,
      hot_tub_type  |-> IF ss.has_hot_tub THEN ss.hot_tub_type ELSE None,
      has_ev        |-> ss.has_ev,
      has_heat_pump |-> ss.has_heat_pump ]

\* the stored series never used
CacheMiss_Always(ss, key) == TRUE

\* src/utils.py:122: the test that decides to draw a new base series
CacheMiss(ss, key) == ss.base_data = Absent \/ ss.date_key # key

\* src/utils.py:124-127: the base series of the days `dates', drawn from state s.
\* One of the two seasonal factors of a month is always 1.0, so the product of
\* the sample and both factors (in 1/100) is a whole number of tenths.
BaseSeries(ne, nw, months) ==
    [ base_elec  |-> Series([ i \in 1..Len(months) |->
          (ne[i] * winter_elec_factor(months[i])
                 * fall_spring_elec_factor(months[i])) \div 10 ]),
      base_water |-> Series([ i \in 1..Len(months) |->
          (nw[i] * winter_water_factor(months[i])
                 * fall_spring_water_factor(months[i])) \div 10 ]) ]

\* the series drawn from the seeded state, whatever has been drawn since
DrawBase_FromSeed(s, dates) ==
    BaseSeries(DrawSeq(NormalElecVals, RngSeed % RngMod, 0, Len(dates)),
               DrawSeq(NormalWaterVals, RngSeed % RngMod, Len(dates), Len(dates)),
               Series([ i \in 1..Len(dates) |-> Month(dates[i]) ]))

DrawBase(s, dates) ==
    BaseSeries(DrawSeq(NormalElecVals, s, 0, Len(dates)),
               DrawSeq(NormalWaterVals, s, Len(dates), Len(dates)),
               Series([ i \in 1..Len(dates) |-> Month(dates[i]) ]))

\* src/utils.py:173-180: seasonal factor of a loop category, in tenths
seasonal_factor(c, m) ==
    IF c = "energy_heating"
    THEN (winter_elec_factor(m) * fall_spring_elec_factor(m)) \div 10
    ELSE IF c = "energy_refrigerator" \/ c = "energy_freezer"
         THEN (IF m \in {6, 7, 8} THEN 12 ELSE 10)
         ELSE 10

\* the hot tub column computed for a hot tub of either type
GateOpen_AnyTub(c, p) ==
    IF c = "energy_ev" THEN p.has_ev ELSE p.has_hot_tub

\* src/utils.py:153-161: is the gated category c computed (TRUE) or set to 0
GateOpen(c, p) ==
    IF c = "energy_ev" THEN p.has_ev
    ELSE p.has_hot_tub /\ p.hot_tub_type = "electric"

\* src/utils.py:154, 159 and 183-184: one category column before normalisation.
\* The value of category c on day i is total / n * variation * seasonal; the
\* model keeps its numerator total * variation * seasonal over the denominator
\* n * 50 (variation in fifths, seasonal factor in tenths).
CategoryColumn(c, months, variation) ==
    Series([ i \in 1..Len(months) |->
        ENERGY_CATEGORIES[c] * variation[i]
          * (IF c \in GatedCategories THEN 10 ELSE seasonal_factor(c, months[i])) ])

\* src/utils.py:153-161: the column of a gated category, drawn after `skip'
\* earlier draws when its gate is open
GatedColumn(c, s, months, p, skip) ==
    IF GateOpen(c, p)
    THEN CategoryColumn(c, months, DrawSeq(UniformVals, s, skip, Len(months)))
    ELSE Series([ i \in 1..Len(months) |-> 0 ])

\* src/utils.py:164-184: the column of the loop category c, the j-th of the
\* loop counted from 0, drawn after the `skip' draws of the gated categories
\* and those of the loop categories before it
LoopColumn(c, j, s, months, skip) ==
    CategoryColumn(c, months,
                   DrawSeq(UniformVals, s, skip + j * Len(months), Len(months)))

\* src/utils.py:152-184: the category columns before normalisation.  `s' is
\* the generator state after the base series, and the draws are taken in
\* program order: energy_ev, energy_hot_tub, then the loop categories.
RawColumns(s, months, p, nEv, nTub) ==
    [ energy_ev              |-> GatedColumn("energy_ev", s, months, p, 0),
      energy_hot_tub         |-> GatedColumn("energy_hot_tub", s, months, p, nEv),
      energy_refrigerator    |-> LoopColumn("energy_refrigerator", 0, s, months, nEv + nTub),
      energy_freezer         |-> LoopColumn("energy_freezer", 1, s, months, nEv + nTub),
      energy_cooker          |-> LoopColumn("energy_cooker", 2, s, months, nEv + nTub),
      energy_dishwasher      |-> LoopColumn("energy_dishwasher", 3, s, months, nEv + nTub),
      energy_washing_machine |-> LoopColumn("energy_washing_machine", 4, s, months, nEv + nTub),
      energy_dryer           |-> LoopColumn("energy_dryer", 5, s, months, nEv + nTub),
      energy_lighting        |-> LoopColumn("energy_lighting", 6, s, months, nEv + nTub),
      energy_heating         |-> LoopColumn("energy_heating", 7, s, months, nEv + nTub),
      energy_other           |-> LoopColumn("energy_other", 8, s, months, nEv + nTub) ]

RawCategories(s, months, p) ==
    LET n == Len(months)
        nEv == IF GateOpen("energy_ev", p) THEN n ELSE 0
        nTub == IF GateOpen("energy_hot_tub", p) THEN n ELSE 0
    IN  [ cols  |-> RawColumns(s, months, p, nEv, nTub),
          draws |-> nEv + nTub + Len(LoopCategories) * n ]

RECURSIVE SumSeq(_)
SumSeq(q) == IF q = << >> THEN 0 ELSE Head(q) + SumSeq(Tail(q))

\* the sum over the category columns of one value e[c] per category c
SumCategories(e) ==
    e.energy_ev + e.energy_hot_tub + e.energy_refrigerator + e.energy_freezer
      + e.energy_cooker + e.energy_dishwasher + e.energy_washing_machine
      + e.energy_dryer + e.energy_lighting + e.energy_heating + e.energy_other

\* df[col].sum() of every category column
ColumnSums(cols) ==
    [ energy_ev              |-> SumSeq(cols.energy_ev),
      energy_hot_tub         |-> SumSeq(cols.energy_hot_tub),
      energy_refrigerator    |-> SumSeq(cols.energy_refrigerator),
      energy_freezer         |-> SumSeq(cols.energy_freezer),
      energy_cooker          |-> SumSeq(cols.energy_cooker),
      energy_dishwasher      |-> SumSeq(cols.energy_dishwasher),
      energy_washing_machine |-> SumSeq(cols.energy_washing_machine),
      energy_dryer           |-> SumSeq(cols.energy_dryer),
      energy_lighting        |-> SumSeq(cols.energy_lighting),
      energy_heating         |-> SumSeq(cols.energy_heating),
      energy_other           |-> SumSeq(cols.energy_other) ]

\* the target taken over the categories of the loop alone
total_energy_Loop ==
    SumSeq([ j \in 1..Len(LoopCategories) |-> ENERGY_CATEGORIES[LoopCategories[j]] ])

\* sum(ENERGY_CATEGORIES.values()), src/utils.py:188
total_energy == SumSeq([ j \in 1..Len(Categories) |-> ENERGY_CATEGORIES[Categories[j]] ])

\* df[energy_cols].sum().sum(), src/utils.py:189, as a numerator over n * 50
current_sum(cols) == SumCategories(ColumnSums(cols))

\* the columns left as generated
scaling_factor_Skipped(current, n) == [ num |-> 1, den |-> n * 50 ]

\* src/utils.py:192-195: the factor every category column is multiplied by,
\* from the current sum `current' of the columns and the number n of days.
\* The columns hold numerators over n * 50 and current_sum is their sum over
\* the same denominator, so (1 / (n * 50)) * total_energy / current_sum is
\* total_energy over the sum of the numerators; without normalisation the
\* columns keep the factor 1 / (n * 50).
scaling_factor(current, n) ==
    IF current > 0
    THEN [ num |-> total_energy, den |-> current ]
    ELSE [ num |-> 1, den |-> n * 50 ]

\* the sign test of Series.clip(lower=0) on k / kden + e * scale
IsNegative(x, kden, scale) == x.k * scale.den + kden * x.e * scale.num < 0

\* the sum left unclipped
clip_Unbounded(x, kden, scale) == x

\* src/utils.py:203 and 208
clip(x, kden, scale) == IF IsNegative(x, kden, scale) THEN Zero ELSE x

\* the base series less the reduction, without the category columns
elec_usage_sum_BaseOnly(base_elec_i, elec_reduction, energy_i) ==
    [ k |-> base_elec_i - elec_reduction, q |-> 0, e |-> 0 ]

\* src/utils.py:198-200, before the clip
elec_usage_sum(base_elec_i, elec_reduction, energy_i) ==
    [ k |-> base_elec_i - elec_reduction,
      q |-> 0,
      e |-> SumCategories(energy_i) ]

\* src/utils.py:206, before the clip
water_usage_sum(base_water_i, geothermal_hot_tub_usage, water_reduction) ==
    [ k |-> base_water_i + geothermal_hot_tub_usage - water_reduction, q |-> 0, e |-> 0 ]

\* usage * TAX_RATE, src/utils.py:225; the division is exact in money units
TaxOf(usage) ==
    [ k |-> (usage.k * TaxRateNum) \div TaxRateDen,
      q |-> (usage.q * TaxRateNum) \div TaxRateDen,
      e |-> (usage.e * TaxRateNum) \div TaxRateDen ]

\* the tax taken on the fixed charges as well
compute_cost_columns_TaxAll(usage_col, kden, unit_price, cost_fixed, cost_equalization) ==
    LET usage == [ k |-> usage_col.k * unit_price * (KMoney \div kden),
                   q |-> 0,
                   e |-> usage_col.e * unit_price * EMoney ]
        tax == TaxOf(NumAdd(usage, NumAdd(cost_fixed, cost_equalization)))
    IN  [ usage_cost |-> usage,
          tax        |-> tax,
          total      |-> NumAdd(NumAdd(cost_fixed, cost_equalization), NumAdd(usage, tax)) ]

\* src/utils.py:221-229; kden is the unit of the usage column
compute_cost_columns(usage_col, kden, unit_price, cost_fixed, cost_equalization) ==
    LET usage == [ k |-> usage_col.k * unit_price * (KMoney \div kden),
                   q |-> 0,
                   e |-> usage_col.e * unit_price * EMoney ]
        tax == TaxOf(usage)
    IN  [ usage_cost |-> usage,
          tax        |-> tax,
          total      |-> NumAdd(NumAdd(cost_fixed, cost_equalization), NumAdd(usage, tax)) ]

\* src/utils.py:212
CostFixed == [ k |-> DAILY_FIXED_COST * KMoney, q |-> 0, e |-> 0 ]

\* the monthly charge spread over thirty days in every month
CostEqualization_ThirtyDays(z) == [ k |-> 0, q |-> (MONTHLY_EQUALIZATION * QDen) \div 30, e |-> 0 ]

\* src/utils.py:211-213; QDen is a multiple of every month length
CostEqualization(z) == [ k |-> 0, q |-> (MONTHLY_EQUALIZATION * QDen) \div DaysInMonth(z), e |-> 0 ]

\* src/utils.py:197-217 and 221-229: one row of the returned table
CostedRow(date, energy_i, eu, wu, cf, ce, ec, wc) ==
    [ date |-> date,
      month |-> Month(date),
      energy |-> energy_i,
      elec_usage |-> eu,
      water_usage |-> wu,
      cost_fixed |-> cf,
      cost_equalization |-> ce,
      elec_usage_cost |-> ec.usage_cost,
      elec_tax |-> ec.tax,
      elec_total |-> ec.total,
      water_usage_cost |-> wc.usage_cost,
      water_tax |-> wc.tax,
      water_total |-> wc.total ]

UsageRow(date, energy_i, eu, wu, cf, ce) ==
    CostedRow(date, energy_i, eu, wu, cf, ce,
              compute_cost_columns(eu, KElec, ELECTRICITY_UNIT_COST, cf, ce),
              compute_cost_columns(wu, KWater, HOT_WATER_UNIT_COST, cf, ce))

\* src/utils.py:141-142: two locals that are assigned and never read; they are
\* no argument of Row
ev_usage(p) == IF p.has_ev THEN EV_DAILY_KWH ELSE 0
electric_hot_tub_usage(p) ==
    IF p.has_hot_tub /\ p.hot_tub_type = "electric" THEN ELECTRIC_HOT_TUB_DAILY_KWH ELSE 0

\* src/utils.py:143-145: the fixed daily adjustments that are used afterwards
geothermal_hot_tub_usage(p) ==
    IF p.has_hot_tub /\ p.hot_tub_type = "geothermal" THEN GEOTHERMAL_HOT_TUB_DAILY_M3 ELSE 0
elec_reduction(p) == IF p.has_heat_pump THEN HEAT_PUMP_ELEC_REDUCTION_KWH ELSE 0
water_reduction(p) == IF p.has_heat_pump THEN HEAT_PUMP_WATER_REDUCTION_M3 ELSE 0

Row(date, p, base_elec_i, base_water_i, energy_i, scale) ==
    UsageRow(date, energy_i,
             clip(elec_usage_sum(base_elec_i, elec_reduction(p), energy_i), KElec, scale),
             clip(water_usage_sum(base_water_i, geothermal_hot_tub_usage(p),
                                  water_reduction(p)), KWater, scale),
             CostFixed, CostEqualization(date))

\* src/utils.py:186-217: normalisation, usage and cost columns.  Next to the
\* rows the table records the call that made it: its range, the preferences
\* read, the base series used (a copy of the local arrays) and whether that
\* series was drawn by this call.
\* the category values of day i, one field per category column
EnergyOfDay(cols, i) ==
    [ energy_ev              |-> cols.energy_ev[i],
      energy_hot_tub         |-> cols.energy_hot_tub[i],
      energy_refrigerator    |-> cols.energy_refrigerator[i],
      energy_freezer         |-> cols.energy_freezer[i],
      energy_cooker          |-> cols.energy_cooker[i],
      energy_dishwasher      |-> cols.energy_dishwasher[i],
      energy_washing_machine |-> cols.energy_washing_machine[i],
      energy_dryer           |-> cols.energy_dryer[i],
      energy_lighting        |-> cols.energy_lighting[i],
      energy_heating         |-> cols.energy_heating[i],
      energy_other           |-> cols.energy_other[i] ]

Table(c, base, cols, scale) ==
    [ start |-> c.start_date, end |-> c.end_date, prefs |-> c.p, drawn |-> c.miss,
      base |-> base, scale |-> scale,
      rows |-> Series([ i \in 1..Len(c.dates) |->
                   Row(c.dates[i], c.p, base.base_elec[i], base.base_water[i],
                       EnergyOfDay(cols, i), scale) ]) ]

\* the key of the stored series left as it was
Generated_StaleKey(c, d) ==
    [ raised |-> FALSE,
      df |-> Table(c, d.base, d.raw.cols,
                   scaling_factor(current_sum(d.raw.cols), Len(c.dates))),
      base_data |-> d.base,
      date_key |-> c.ss.date_key,
      rng |-> RngAt(d.s1, d.raw.draws) ]

\* src/utils.py:122-138 and 219: the returned table with the session and
\* generator state the call leaves.  c holds what the call has computed before
\* it draws, d what it has drawn.
Generated(c, d) ==
    [ raised |-> FALSE,
      df |-> Table(c, d.base, d.raw.cols,
                   scaling_factor(current_sum(d.raw.cols), Len(c.dates))),
      base_data |-> d.base,
      date_key |-> IF c.miss THEN DateKey(c.start_date, c.end_date) ELSE c.ss.date_key,
      rng |-> RngAt(d.s1, d.raw.draws) ]

\* src/utils.py:122-138: the local arrays base_elec and base_water, drawn on a
\* miss and read from the session otherwise
BaseArrays(ss, s, dates, miss) == IF miss THEN DrawBase(s, dates) ELSE ss.base_data

\* src/utils.py:120-184: the base series, drawn from s or read from the
\* session, and the category columns drawn from the state s1 after it
Drawn(c, s, s1) ==
    [ base |-> BaseArrays(c.ss, s, c.dates, c.miss),
      s1   |-> s1,
      raw  |-> RawCategories(s1, c.months, c.p) ]

\* src/utils.py:120-138: draw and store a new base series, or use the stored one
WithBase(c, s) ==
    Generated(c, Drawn(c, s, IF c.miss THEN RngAt(s, 2 * Len(c.dates)) ELSE s))

\* src/utils.py:100-122: the dates of the range with their months, the
\* preferences read and the outcome of the cache test
Locals(ss, start_date, end_date) ==
    [ ss         |-> ss,
      start_date |-> start_date,
      end_date   |-> end_date,
      dates      |-> date_range(start_date, end_date),
      months     |-> Series([ i \in 1..(end_date - start_date + 1) |->
                         Month(start_date + i - 1) ]),
      p          |-> ReadPreferences(ss),
      miss       |-> CacheMiss(ss, DateKey(start_date, end_date)) ]

\* src/utils.py:150-170 on an empty date_range: days_in_period = len(df) is 0,
\* and the first total divided by it (line 154, 159 or 170) raises
\* ZeroDivisionError.  No table is returned.  The empty base series of lines
\* 124-134 has been stored by then, and no random number has been drawn.
ZeroDays(ss, s, start_date, end_date, miss) ==
    [ raised |-> TRUE,
      df |-> Absent,
      base_data |-> IF miss THEN [ base_elec |-> << >>, base_water |-> << >> ]
                    ELSE ss.base_data,
      date_key |-> IF miss THEN DateKey(start_date, end_date) ELSE ss.date_key,
      rng |-> s ]

\* src/utils.py:97-219.  ss is the session state, s the generator state; the
\* result holds the returned table and the new session and generator state.
generate_data(ss, s, start_date, end_date) ==
    IF Len(date_range(start_date, end_date)) = 0
    THEN ZeroDays(ss, s, start_date, end_date,
                  CacheMiss(ss, DateKey(start_date, end_date)))
    ELSE WithBase(Locals(ss, start_date, end_date), s)

----------------
(* aggregate_by_time_period, src/utils.py:231-297 *)

Grains == { "daily", "weekly", "monthly" }

\* the groupby keys, src/utils.py:244-245 and 270-271
IsoKey(iso) == << iso.year, iso.week >>
\* the week grouped under the calendar year of the day
WeekKey_CalendarYear(r) == << Year(r.date), IsoCalendar(r.date).week >>

WeekKey(r) == IsoKey(IsoCalendar(r.date))
\* the year and the month of a civil date
YearMonthOf(c) == << c.year, c.month >>

MonthKey(r) == YearMonthOf(CivilFromDays(r.date))

\* the keys compared by week or month number alone
KeyLess_PeriodOnly(a, b) == a[2] < b[2]

\* the order of the group keys (year, week) and (year, month)
KeyLess(a, b) == a[1] < b[1] \/ (a[1] = b[1] /\ a[2] < b[2])

RECURSIVE SortKeys(_)
\* groupby sorts the group keys in ascending order
SortKeys(S) ==
    IF S = {} THEN << >>
    ELSE LET m == CHOOSE x \in S : \A y \in S : x = y \/ KeyLess(x, y)
         IN  << m >> \o SortKeys(S \ {m})

RECURSIVE GroupRows(_, _, _)
\* the rows of one group, in table order; keys[i] is the group key of rows[i]
GroupRows(rows, keys, key) ==
    IF rows = << >> THEN << >>
    ELSE (IF Head(keys) = key THEN << Head(rows) >> ELSE << >>)
         \o GroupRows(Tail(rows), Tail(keys), key)

RECURSIVE SumNum(_)
SumNum(q) == IF q = << >> THEN Zero ELSE NumAdd(Head(q), SumNum(Tail(q)))

\* a column aggregated as "first" where agg_dict says "sum"
ColSum_FirstTax(g, col) ==
    IF col = "elec_tax" THEN g[1][col] ELSE SumNum([ i \in 1..Len(g) |-> g[i][col] ])

\* the total of a group taken from its first row
ColSum_FirstTotal(g, col) ==
    IF col = "elec_total" THEN g[1][col] ELSE SumNum([ i \in 1..Len(g) |-> g[i][col] ])

\* "sum" of one column over the rows g
ColSum(g, col) == SumNum([ i \in 1..Len(g) |-> g[i][col] ])

\* the columns of agg_dict that are summed, src/utils.py:250-259 and 276-285
SumColumns ==
    { "elec_usage", "water_usage", "cost_fixed", "cost_equalization",
      "elec_usage_cost", "elec_tax", "elec_total",
      "water_usage_cost", "water_tax", "water_total" }

\* .agg(agg_dict) on one group: "first" for date, "sum" for every other column
\* "sum" of one category column over the rows g
EnergyColSum(g, c) == SumSeq([ i \in 1..Len(g) |-> g[i].energy[c] ])

\* "sum" of every category column over the rows g
EnergySums(g) ==
    [ energy_ev              |-> EnergyColSum(g, "energy_ev"),
      energy_hot_tub         |-> EnergyColSum(g, "energy_hot_tub"),
      energy_refrigerator    |-> EnergyColSum(g, "energy_refrigerator"),
      energy_freezer         |-> EnergyColSum(g, "energy_freezer"),
      energy_cooker          |-> EnergyColSum(g, "energy_cooker"),
      energy_dishwasher      |-> EnergyColSum(g, "energy_dishwasher"),
      energy_washing_machine |-> EnergyColSum(g, "energy_washing_machine"),
      energy_dryer           |-> EnergyColSum(g, "energy_dryer"),
      energy_lighting        |-> EnergyColSum(g, "energy_lighting"),
      energy_heating         |-> EnergyColSum(g, "energy_heating"),
      energy_other           |-> EnergyColSum(g, "energy_other") ]

AggRow(g, key) ==
    [ year |-> key[1],
      period |-> key[2],
      date |-> g[1].date,
      energy |-> EnergySums(g),
      elec_usage |-> ColSum(g, "elec_usage"),
      water_usage |-> ColSum(g, "water_usage"),
      cost_fixed |-> ColSum(g, "cost_fixed"),
      cost_equalization |-> ColSum(g, "cost_equalization"),
      elec_usage_cost |-> ColSum(g, "elec_usage_cost"),
      elec_tax |-> ColSum(g, "elec_tax"),
      elec_total |-> ColSum(g, "elec_total"),
      water_usage_cost |-> ColSum(g, "water_usage_cost"),
      water_tax |-> ColSum(g, "water_tax"),
      water_total |-> ColSum(g, "water_total") ]

\* .agg(agg_dict).reset_index(): one row per group, in the order of sorted
Grouped(rows, keys, sorted) ==
    Series([ j \in 1..Len(sorted) |-> AggRow(GroupRows(rows, keys, sorted[j]), sorted[j]) ])

\* agg_df.groupby([...]); keys[i] is the group key of rows[i]
GroupBy(rows, keys) ==
    Grouped(rows, keys, SortKeys({ keys[i] : i \in 1..Len(keys) }))

\* the date of the first observed day kept
FirstOfMonth_Observed(r) == r

\* src/utils.py:295: the date of a monthly row is the first day of its month
FirstOfMonth(r) == [ r EXCEPT !.date = DaysFromCivil(r.year, r.period, 1) ]

\* src/utils.py:295 applied to every row of grouped
ForcedDates(grouped) == Series([ j \in 1..Len(grouped) |-> FirstOfMonth(grouped[j]) ])

\* src/utils.py:231-297; the daily grain returns the copy of the table as it is
aggregate_by_time_period(d, period) ==
    [ period |-> period,
      scale |-> d.scale,
      rows |->
        IF period = "daily"
        THEN d.rows
        ELSE IF period = "weekly"
        THEN GroupBy(d.rows, Series([ i \in 1..Len(d.rows) |-> WeekKey(d.rows[i]) ]))
        ELSE ForcedDates(GroupBy(d.rows,
                                 Series([ i \in 1..Len(d.rows) |-> MonthKey(d.rows[i]) ]))) ]

----------------------------------------------------------------------------
(* Summary queries, src/utils.py:323-426.  `today' is date.today() as a      *)
(* civil date; a result is the tuple (total, electricity, water).           *)

\* an amount of money without an energy part
Money(n) == [ k |-> n * KMoney, q |-> 0, e |-> 0 ]

\* return 0, 0, 0
ZeroCosts == << Zero, Zero, Zero >>

\* return 11500, 7500, 4000 (src/utils.py:409)
FallbackCosts == << Money(11500), Money(7500), Money(4000) >>

\* src/utils.py:323-329
get_last_full_month(today) ==
    IF today.month = 1
    THEN [ year |-> today.year - 1, month |-> 12, day |-> 1 ]
    ELSE [ year |-> today.year, month |-> today.month - 1, day |-> 1 ]

\* elec_cost, water_cost and total_cost of the selected rows `data'
SummedCosts(data) ==
    << NumAdd(ColSum(data, "elec_total"), ColSum(data, "water_total")),
       ColSum(data, "elec_total"),
       ColSum(data, "water_total") >>

\* the common tail of the queries that return zeros for an empty selection
CostsOrZero(data) == IF Len(data) = 0 THEN ZeroCosts ELSE SummedCosts(data)

\* the rows of d of the calendar month (year, month)
RowsOfMonth(d, year, month) ==
    SelectSeq(d.rows, LAMBDA r : YearMonthOf(CivilFromDays(r.date)) = << year, month >>)

\* an empty selection answered with the fallback amounts
get_current_month_costs_Fallback(d, today) ==
    IF Len(RowsOfMonth(d, today.year, today.month)) = 0
    THEN FallbackCosts
    ELSE SummedCosts(RowsOfMonth(d, today.year, today.month))

\* src/utils.py:331-346
get_current_month_costs(d, today) == CostsOrZero(RowsOfMonth(d, today.year, today.month))

\* src/utils.py:366-385, called with a table
get_last_month_costs(d, today) ==
    CostsOrZero(RowsOfMonth(d, get_last_full_month(today).year,
                            get_last_full_month(today).month))

\* src/utils.py:393-396: first and last day of the month before last month
PreviousMonthEnd(today) ==
    DaysFromCivil(Year(DaysFromCivil(today.year, today.month, 1) - 1),
                  Month(DaysFromCivil(today.year, today.month, 1) - 1), 1) - 1
PreviousMonthStart(today) ==
    DaysFromCivil(Year(PreviousMonthEnd(today)), Month(PreviousMonthEnd(today)), 1)

\* src/utils.py:398-409 on the selected rows
CostsOrFallback(data) == IF Len(data) > 0 THEN SummedCosts(data) ELSE FallbackCosts

\* src/utils.py:387-409, called with a table
get_previous_month_costs(d, today) ==
    CostsOrFallback(SelectSeq(d.rows, LAMBDA r : /\ r.date >= PreviousMonthStart(today)
                                                 /\ r.date <= PreviousMonthEnd(today)))

\* src/utils.py:411-426
\* the day of the month not compared
UpToDay_WholeMonth(c, year, month, day_of_month) ==
    c.year = year /\ c.month = month

UpToDay(c, year, month, day_of_month) ==
    c.year = year /\ c.month = month /\ c.day <= day_of_month

get_month_to_date_costs(d, year, month, day_of_month) ==
    CostsOrZero(SelectSeq(d.rows,
                          LAMBDA r : UpToDay(CivilFromDays(r.date), year, month, day_of_month)))

\* x - y
NumSub(x, y) == [ k |-> x.k - y.k, q |-> x.q - y.q, e |-> x.e - y.e ]

\* the amount 1, the denominator of a whole number
One == [ k |-> KMoney, q |-> 0, e |-> 0 ]

\* A percentage is kept as the exact quotient times * num / den of two amounts.
\* return 0
ZeroPercent == [ times |-> 0, num |-> Zero, den |-> One ]

\* the ratio taken for the change: (current / previous) * 100
calculate_percentage_change_Ratio(current, previous) ==
    IF previous = Zero
    THEN ZeroPercent
    ELSE [ times |-> 100, num |-> current, den |-> previous ]

\* src/sidebar.py:98-102: ((current / previous) - 1) * 100.  The amounts
\* compared are sums of non-negative terms, zero only as the record Zero.
calculate_percentage_change(current, previous) ==
    IF previous = Zero
    THEN ZeroPercent
    ELSE [ times |-> 100, num |-> NumSub(current, previous), den |-> previous ]

\* src/utils.py:436-442: one row of monthly_costs from the group sums
MonthlyCost(g) ==
    [ year |-> g.year,
      month |-> g.period,
      elec_total |-> g.elec_total,
      water_total |-> g.water_total,
      total |-> NumAdd(g.elec_total, g.water_total) ]

\* src/utils.py:436-448 on the groups of (year, month), sorted by year and month
MonthlyCosts(grouped) == Series([ j \in 1..Len(grouped) |-> MonthlyCost(grouped[j]) ])

\* src/utils.py:428-450
calculate_monthly_costs(d) ==
    MonthlyCosts(GroupBy(d.rows, Series([ i \in 1..Len(d.rows) |-> MonthKey(d.rows[i]) ])))

\* sort_values(["year", "month"], ascending=False) of the ascending monthly_costs
Descending(q) == Series([ j \in 1..Len(q) |-> q[Len(q) + 1 - j] ])

\* src/sidebar.py:207-216: the changes of a row against prev_row
Changes(row, prev_row) ==
    << calculate_percentage_change(row.total, prev_row.total),
       calculate_percentage_change(row.elec_total, prev_row.elec_total),
       calculate_percentage_change(row.water_total, prev_row.water_total) >>

\* src/sidebar.py:199-238: the entry displayed for row i of sorted_costs; the
\* oldest month has no changes
OverviewEntry(sorted_costs, i) ==
    [ year |-> sorted_costs[i].year,
      month |-> sorted_costs[i].month,
      total |-> sorted_costs[i].total,
      elec |-> sorted_costs[i].elec_total,
      water |-> sorted_costs[i].water_total,
      changes |-> IF i < Len(sorted_costs)
                  THEN Changes(sorted_costs[i], sorted_costs[i + 1])
                  ELSE << >> ]

\* the entries in display order
Overview(sorted_costs) ==
    Series([ i \in 1..Len(sorted_costs) |-> OverviewEntry(sorted_costs, i) ])

\* src/sidebar.py:186-238
display_monthly_cost_overview(d) == Overview(Descending(calculate_monthly_costs(d)))

----------------------------------------------------------------------------
(* The session: preference callbacks (src/sidebar.py:16-43), the time grain *)
(* selector (src/charts.py:425-453) and the script run (main,               *)
(* src/orkunotkun_app.py:10-61).                                            *)

\* first days offered by the two date inputs of main
StartDates ==
    { DaysFromCivil(2024, 12, 30), DaysFromCivil(2025, 2, 27), DaysFromCivil(2025, 6, 29) }

Session ==
    [ has_hot_tub |-> has_hot_tub, hot_tub_type |-> hot_tub_type,
      has_ev |-> has_ev, has_heat_pump |-> has_heat_pump,
      base_data |-> base_data, date_key |-> date_key ]

Init ==
    /\ has_hot_tub = FALSE
    /\ hot_tub_type = "geothermal"
    /\ has_ev = FALSE
    /\ has_heat_pump = FALSE
    /\ force_rerun = FALSE
    /\ base_data = Absent
    /\ date_key = Absent
    /\ rng = RngSeed % RngMod
    /\ time_grain = "daily"
    /\ df = Absent
    /\ agg = Absent
    /\ error = FALSE
    /\ calls = 0

\* df and aggregated_df are locals of main.  A widget event ends the script
\* run that showed them and starts a new run, whose callback executes first:
\* the tables and the messages of the previous run no longer exist.
NewRun == df' = Absent /\ agg' = Absent /\ error' = FALSE

on_hot_tub_change ==
    \E hot_tub_toggle \in BOOLEAN :
        /\ hot_tub_toggle # has_hot_tub
        /\ has_hot_tub' = hot_tub_toggle
        /\ force_rerun' = TRUE
        /\ NewRun
        /\ UNCHANGED << hot_tub_type, has_ev, has_heat_pump, base_data, date_key,
                        rng, time_grain, calls >>

on_hot_tub_type_change ==
    \E selection \in { "Hitaveita", "Rafmagn" } :
        /\ has_hot_tub
        /\ selection # (IF hot_tub_type = "geothermal" THEN "Hitaveita" ELSE "Rafmagn")
        /\ hot_tub_type' = IF selection = "Hitaveita" THEN "geothermal" ELSE "electric"
        /\ force_rerun' = TRUE
        /\ NewRun
        /\ UNCHANGED << has_hot_tub, has_ev, has_heat_pump, base_data, date_key,
                        rng, time_grain, calls >>

on_ev_change ==
    \E ev_toggle \in BOOLEAN :
        /\ ev_toggle # has_ev
        /\ has_ev' = ev_toggle
        /\ force_rerun' = TRUE
        /\ NewRun
        /\ UNCHANGED << has_hot_tub, hot_tub_type, has_heat_pump, base_data, date_key,
                        rng, time_grain, calls >>

on_heat_pump_change ==
    \E heat_pump_toggle \in BOOLEAN :
        /\ heat_pump_toggle # has_heat_pump
        /\ has_heat_pump' = heat_pump_toggle
        /\ force_rerun' = TRUE
        /\ NewRun
        /\ UNCHANGED << has_hot_tub, hot_tub_type, has_ev, base_data, date_key,
                        rng, time_grain, calls >>

\* src/charts.py:441-453: a changed selection is stored and the run restarts
display_time_grain_selector ==
    \E selected_time_grain \in Grains :
        /\ selected_time_grain # time_grain
        /\ time_grain' = selected_time_grain
        /\ NewRun
        /\ UNCHANGED << has_hot_tub, hot_tub_type, has_ev, has_heat_pump, force_rerun,
                        base_data, date_key, rng, calls >>

\* src/orkunotkun_app.py:14-18: a run that finds the flag set resets it and
\* restarts before it has generated anything
MainRerun ==
    /\ force_rerun
    /\ force_rerun' = FALSE
    /\ NewRun
    /\ UNCHANGED << has_hot_tub, hot_tub_type, has_ev, has_heat_pump,
                    base_data, date_key, rng, time_grain, calls >>

\* src/orkunotkun_app.py:40 and 54: what a run does with the result r of
\* generate_data
\* generate_data; an exception raised by the call ends the caller, which is
\* left without tables
Returned(r) ==
    /\ df' = r.df
    /\ base_data' = r.base_data
    /\ date_key' = r.date_key
    /\ rng' = r.rng
    /\ agg' = IF r.raised THEN Absent ELSE aggregate_by_time_period(r.df, time_grain)

\* the test never true
InvalidRange_Never(start_date, end_date) == FALSE

\* src/orkunotkun_app.py:35: if start_date > end_date
InvalidRange(start_date, end_date) == start_date > end_date

\* a run that generates the table without looking at force_rerun
Main_Unchecked(start_date, end_date) ==
    /\ ~InvalidRange(start_date, end_date)
    /\ calls < MaxCalls
    /\ Returned(generate_data(Session, rng, start_date, end_date))
    /\ calls' = calls + 1
    /\ error' = FALSE
    /\ UNCHANGED << has_hot_tub, hot_tub_type, has_ev, has_heat_pump, force_rerun,
                    time_grain >>

\* src/orkunotkun_app.py:20-61: a run with a valid range generates the daily
\* table and aggregates it at the selected grain
Main(start_date, end_date) ==
    /\ ~force_rerun
    /\ ~InvalidRange(start_date, end_date)
    /\ calls < MaxCalls
    /\ Returned(generate_data(Session, rng, start_date, end_date))
    /\ calls' = calls + 1
    /\ error' = FALSE
    /\ UNCHANGED << has_hot_tub, hot_tub_type, has_ev, has_heat_pump, force_rerun,
                    time_grain >>

\* src/orkunotkun_app.py:20-37: a run with start_date after end_date shows
\* the error and returns
MainInvalid(start_date, end_date) ==
    /\ ~force_rerun
    /\ InvalidRange(start_date, end_date)
    /\ error' = TRUE
    /\ df' = Absent
    /\ agg' = Absent
    /\ UNCHANGED << has_hot_tub, hot_tub_type, has_ev, has_heat_pump, force_rerun,
                    base_data, date_key, rng, time_grain, calls >>

Next ==
    \/ on_hot_tub_change
    \/ on_hot_tub_type_change
    \/ on_ev_change
    \/ on_heat_pump_change
    \/ display_time_grain_selector
    \/ MainRerun
    \/ \E start_date \in StartDates :
         \E end_date \in (start_date - 1)..(start_date + MaxDays - 1) :
            \/ Main(start_date, end_date)
            \/ MainInvalid(start_date, end_date)

Spec == Init /\ [][Next]_vars

\* Streamlit runs the script after every callback and again after st.rerun()
\* (src/orkunotkun_app.py:15-18): a run that finds force_rerun set is not
\* put off for ever.
FairSpec == Spec /\ WF_vars(MainRerun)

\* generate_data called directly, in a session whose preferences change, with
\* any range, the ranges that end before they start included
Direct(start_date, end_date) ==
    /\ calls < MaxCalls
    /\ Returned(generate_data(Session, rng, start_date, end_date))
    /\ calls' = calls + 1
    /\ error' = FALSE
    /\ UNCHANGED << has_hot_tub, hot_tub_type, has_ev, has_heat_pump, force_rerun,
                    time_grain >>

DirectNext ==
    \/ on_hot_tub_change
    \/ on_hot_tub_type_change
    \/ on_ev_change
    \/ on_heat_pump_change
    \/ \E start_date \in StartDates :
         \E end_date \in (start_date - 2)..(start_date + 1) :
            Direct(start_date, end_date)

DirectSpec == Init /\ [][DirectNext]_vars

----------------------------------------------------------------------------
(* Properties *)

Days(t) == 1..Len(t.rows)

\* x times the whole number n
NumScale(x, n) == [k |-> x.k * n, q |-> x.q * n, e |-> x.e * n]

RECURSIVE Gcd(_, _)
Gcd(a, b) == IF b = 0 THEN a ELSE Gcd(b, a % b)

\* a / b = c / d for b, d > 0, by lowest terms
RatEq(a, b, c, d) ==
    LET g == Gcd(a, b)
        h == Gcd(c, d)
    IN  a \div g = c \div h /\ b \div g = d \div h

\* the sum of column col over the rows of t whose index is in I
RECURSIVE SumOver(_, _, _)
SumOver(t, col, I) ==
    IF I = {} THEN Zero
    ELSE LET i == CHOOSE x \in I : TRUE
         IN  NumAdd(t.rows[i][col], SumOver(t, col, I \ {i}))

RECURSIVE EnergyOver(_, _, _)
EnergyOver(t, c, I) ==
    IF I = {} THEN 0
    ELSE LET i == CHOOSE x \in I : TRUE
         IN  t.rows[i].energy[c] + EnergyOver(t, c, I \ {i})

CostIdentity(r) ==
    /\ r.elec_total = NumAdd(NumAdd(r.cost_fixed, r.cost_equalization),
                             NumAdd(r.elec_usage_cost, r.elec_tax))
    /\ r.water_total = NumAdd(NumAdd(r.cost_fixed, r.cost_equalization),
                              NumAdd(r.water_usage_cost, r.water_tax))

\* C1: in every row of the daily table and of the table aggregated at any
\* grain, for electricity and for water,
\* total = cost_fixed + cost_equalization + usage_cost + tax.
C1_CostIdentity ==
    /\ df # Absent => \A i \in Days(df) : CostIdentity(df.rows[i])
    /\ agg # Absent => \A j \in Days(agg) : CostIdentity(agg.rows[j])

\* a weekly or monthly row that sums several taxed daily rows
C1_Witness ==
    /\ agg # Absent
    /\ agg.period \in { "weekly", "monthly" }
    /\ Len(agg.rows) < Len(df.rows)
    /\ \A i \in Days(df) : df.rows[i].elec_tax # Zero /\ df.rows[i].water_tax # Zero

\* the usage cost of a usage column and its tax, in money units
PricedUsage(usage, kden, unit_price) ==
    [ k |-> usage.k * unit_price * (KMoney \div kden), q |-> 0,
      e |-> usage.e * unit_price * EMoney ]

TaxDerivation(r) ==
    /\ r.elec_usage_cost = PricedUsage(r.elec_usage, KElec, ELECTRICITY_UNIT_COST)
    /\ r.water_usage_cost = PricedUsage(r.water_usage, KWater, HOT_WATER_UNIT_COST)
    /\ NumScale(r.elec_tax, TaxRateDen) = NumScale(r.elec_usage_cost, TaxRateNum)
    /\ NumScale(r.water_tax, TaxRateDen) = NumScale(r.water_usage_cost, TaxRateNum)

\* C2: in every row of the daily table and of every aggregated table the tax
\* is the usage cost times TAX_RATE, where the usage cost is the usage times
\* the unit price: nothing of cost_fixed or cost_equalization is taxed.
C2_TaxDerivation ==
    /\ df # Absent => \A i \in Days(df) : TaxDerivation(df.rows[i])
    /\ agg # Absent => \A j \in Days(agg) : TaxDerivation(agg.rows[j])

\* an aggregated row of several days with tax on both utilities
C2_Witness ==
    /\ agg # Absent
    /\ agg.period = "monthly"
    /\ Len(agg.rows) = 1
    /\ Len(df.rows) = 2
    /\ agg.rows[1].elec_tax # Zero
    /\ agg.rows[1].water_tax # Zero

\* the categories whose column is generated for the preferences p
Active(p) == { c \in CategorySet : c \in GatedCategories => GateOpen(c, p) }

RECURSIVE TotalOf(_)
\* the sum of the configured totals of the categories in C
TotalOf(C) ==
    IF C = {} THEN 0
    ELSE LET c == CHOOSE x \in C : TRUE
         IN  ENERGY_CATEGORIES[c] + TotalOf(C \ {c})

RECURSIVE EnergySum(_, _)
\* the sum over the range of the columns of the categories in C, as a
\* numerator to be multiplied by t.scale
EnergySum(t, C) ==
    IF C = {} THEN 0
    ELSE LET c == CHOOSE x \in C : TRUE
         IN  EnergyOver(t, c, Days(t)) + EnergySum(t, C \ {c})

\* numerator * t.scale = total
ScalesTo(t, numerator, total) == numerator * t.scale.num = total * t.scale.den

C4_ActiveTarget ==
    (df # Absent /\ ~df.prefs.has_ev) =>
        /\ \A i \in Days(df) : df.rows[i].energy["energy_ev"] = 0
        /\ ScalesTo(df, EnergySum(df, Active(df.prefs) \ {"energy_ev"}),
                    TotalOf(Active(df.prefs) \ {"energy_ev"}))

\* the values that the clip of generate_data receives for row i of t
UnclippedElec(t, i) ==
    elec_usage_sum(t.base.base_elec[i], elec_reduction(t.prefs), t.rows[i].energy)
UnclippedWater(t, i) ==
    water_usage_sum(t.base.base_water[i], geothermal_hot_tub_usage(t.prefs),
                    water_reduction(t.prefs))

\* C5: every row returned by generate_data has elec_usage >= 0 and
\* water_usage >= 0, whatever the range, the base draws and the preferences.
C5_NonNegativeUsage ==
    df # Absent =>
        \A i \in Days(df) :
            /\ ~IsNegative(df.rows[i].elec_usage, KElec, df.scale)
            /\ ~IsNegative(df.rows[i].water_usage, KWater, df.scale)

\* a table with a heat pump where the sum of a day is negative before the
\* clip, for electricity and for water
C5_Witness ==
    /\ df # Absent
    /\ df.prefs.has_heat_pump
    /\ \E i \in Days(df) : IsNegative(UnclippedElec(df, i), KElec, df.scale)
    /\ \E i \in Days(df) : IsNegative(UnclippedWater(df, i), KWater, df.scale)

\* the group key of a daily row at grain g
KeyAt(g, r) == IF g = "weekly" THEN WeekKey(r) ELSE MonthKey(r)

SameSums(a, t) ==
    /\ \A col \in SumColumns : SumOver(a, col, Days(a)) = SumOver(t, col, Days(t))
    /\ \A c \in CategorySet : EnergyOver(a, c, Days(a)) = EnergyOver(t, c, Days(t))

\* every daily row of t belongs to exactly one group of a
OneGroupEach(a, t) ==
    a.period # "daily" =>
        \A i \in Days(t) :
            Cardinality({ j \in Days(a) :
                << a.rows[j].year, a.rows[j].period >> = KeyAt(a.period, t.rows[i]) }) = 1

Preserved(a, t) == SameSums(a, t) /\ OneGroupEach(a, t)

\* C6: for any daily table the sum of every summed column over all rows is
\* the same in the daily, weekly and monthly outputs of
\* aggregate_by_time_period, and every daily row is in exactly one weekly
\* and one monthly group.
C6_SumPreserved ==
    df # Absent => \A g \in Grains : Preserved(aggregate_by_time_period(df, g), df)

\* three days that fall in two ISO weeks and in two months, split differently
\* by the two groupings, aggregated weekly
C6_Witness ==
    /\ agg # Absent
    /\ agg.period = "weekly"
    /\ Len(df.rows) = 3
    /\ Len(agg.rows) = 2
    /\ WeekKey(df.rows[1]) # WeekKey(df.rows[2])
    /\ MonthKey(df.rows[2]) # MonthKey(df.rows[3])

\* the step is a run of main that calls generate_data
IsCall == calls' = calls + 1

\* the session key of the range of the table t
RangeKey(t) == DateKey(t.start, t.end)

C7_Step ==
    /\ (IsCall /\ base_data # Absent /\ date_key = RangeKey(df')) =>
          /\ base_data' = base_data
          /\ date_key' = date_key
          /\ df'.base = base_data
          /\ ~df'.drawn
    /\ ~IsCall => (base_data' = base_data /\ date_key' = date_key)

\* C7: a generate_data call for the range of the cached base series uses
\* that series, whatever the preference flags are, and leaves base_data and
\* date_key as they were; a preference change alone leaves them unchanged
\* too.
C7_BaseStable == [][C7_Step]_vars

\* a second call that read changed preferences and used the series that the
\* first call drew
C7_Witness ==
    /\ calls = 2
    /\ df # Absent
    /\ ~df.drawn
    /\ df.base = base_data
    /\ df.prefs.has_heat_pump /\ df.prefs.has_ev /\ df.prefs.hot_tub_type = "electric"
    /\ Len(df.rows) = 3

C8_Step ==
    IsCall =>
        /\ date_key' = RangeKey(df')
        /\ Len(base_data'.base_elec) = df'.end - df'.start + 1
        /\ Len(base_data'.base_water) = df'.end - df'.start + 1
        /\ df'.base = base_data'
        /\ (base_data = Absent \/ date_key # RangeKey(df')) =>
              /\ df'.drawn
              /\ base_data' = DrawBase(rng, date_range(df'.start, df'.end))

\* C8: a generate_data call whose range differs from date_key, or that finds
\* nothing cached, draws a new base series and stores it under the key of its
\* range; after every call date_key is the key of the range of that call and
\* the cached series, the one the call used, has one value per day.
C8_KeyedByRange == [][C8_Step]_vars

\* a second call that drew a new series of another length for another range
C8_Witness ==
    /\ calls = 2
    /\ df # Absent
    /\ df.drawn
    /\ date_key = RangeKey(df)
    /\ Len(df.rows) = 1
    /\ Len(base_data.base_elec) = 1
    /\ df.start = DaysFromCivil(2025, 2, 27)

\* x1 under the scale s1 and x2 under the scale s2 are the same value; both
\* scales have the numerator total_energy
SameValue(x1, s1, x2, s2) ==
    /\ x1.k = x2.k
    /\ x1.q = x2.q
    /\ s1.num = s2.num
    /\ RatEq(x1.e, s1.den, x2.e, s2.den)

SameTable(t1, t2) ==
    /\ Len(t1.rows) = Len(t2.rows)
    /\ \A i \in Days(t1) :
          /\ t1.rows[i].date = t2.rows[i].date
          /\ \A c \in CategorySet :
                RatEq(t1.rows[i].energy[c], t1.scale.den,
                      t2.rows[i].energy[c], t2.scale.den)
          /\ \A col \in SumColumns :
                SameValue(t1.rows[i][col], t1.scale, t2.rows[i][col], t2.scale)

C9_Step ==
    (IsCall /\ df # Absent /\ RangeKey(df') = RangeKey(df) /\ df'.prefs = df.prefs) =>
        SameTable(df, df')

\* C9 as stated: two generate_data calls of one session with the same range
\* and the same preference flags return tables with the same value in every
\* column on every day.
C9_SameTables == [][C9_Step]_vars

\* the (calendar year, calendar month) of a day
YearMonth(z) == YearMonthOf(CivilFromDays(z))

\* r is the monthly row of the daily rows of t with index in I
MonthlyRowOf(t, r, I) ==
    /\ r.date = DaysFromCivil(r.year, r.period, 1)
    /\ I # {}
    /\ \A col \in SumColumns : r[col] = SumOver(t, col, I)
    /\ \A c \in CategorySet : r.energy[c] = EnergyOver(t, c, I)

MonthlyRow(t, r) ==
    MonthlyRowOf(t, r, { i \in Days(t) : YearMonth(t.rows[i].date) = << r.year, r.period >> })

Monthly(a, t) ==
    /\ Len(a.rows) = Cardinality({ YearMonth(t.rows[i].date) : i \in Days(t) })
    /\ \A j \in Days(a) : MonthlyRow(t, a.rows[j])
    /\ \A j1, j2 \in Days(a) :
          j1 # j2 => << a.rows[j1].year, a.rows[j1].period >>
                       # << a.rows[j2].year, a.rows[j2].period >>

\* C10: aggregate_by_time_period(df, "monthly") has exactly one row for each
\* (calendar year, calendar month) of the daily rows; the date of the row is
\* the first day of that month and every summed column is the sum of the
\* column over the daily rows of that month.
C10_MonthlyRows ==
    df # Absent => Monthly(aggregate_by_time_period(df, "monthly"), df)

\* a range that starts late in one month and ends in the next, in another
\* calendar year: two monthly rows, the first dated before the first day seen
C10_Witness ==
    /\ agg # Absent
    /\ agg.period = "monthly"
    /\ Len(agg.rows) = 2
    /\ agg.rows[1].date = DaysFromCivil(2024, 12, 1)
    /\ agg.rows[2].date = DaysFromCivil(2025, 1, 1)
    /\ df.rows[1].date = DaysFromCivil(2024, 12, 30)
    /\ Len(df.rows) = 3

\* the (ISO week-year, ISO week number) of a day
IsoYearWeek(z) == << IsoCalendar(z).year, IsoCalendar(z).week >>

\* r is the weekly row of the daily rows of t with index in I
WeeklyRowOf(t, r, I) ==
    /\ I # {}
    /\ \E i \in I : r.date = t.rows[i].date
    /\ \A i \in I : r.date <= t.rows[i].date
    /\ \A col \in SumColumns : r[col] = SumOver(t, col, I)
    /\ \A c \in CategorySet : r.energy[c] = EnergyOver(t, c, I)

\* a is the weekly table of t; weeks[i] is the ISO year and week of row i of t
Weekly(a, t, weeks) ==
    /\ Len(a.rows) = Cardinality({ weeks[i] : i \in Days(t) })
    /\ \A j \in Days(a) :
          WeeklyRowOf(t, a.rows[j],
                      { i \in Days(t) : weeks[i] = << a.rows[j].year, a.rows[j].period >> })
    /\ \A j1, j2 \in Days(a) :
          j1 # j2 => << a.rows[j1].year, a.rows[j1].period >>
                       # << a.rows[j2].year, a.rows[j2].period >>

\* C11: the weekly aggregate has exactly one row for each (ISO week-year, ISO
\* week number) of the daily rows, also for a week that holds days of two
\* calendar years; the date of the row is the earliest daily date of the
\* group and every usage, cost and energy category column is the sum over
\* the daily rows of the group.
C11_WeeklyRows ==
    (agg # Absent /\ agg.period = "weekly") =>
        Weekly(agg, df, Series([ i \in Days(df) |-> IsoYearWeek(df.rows[i].date) ]))

\* one ISO week, of ISO year 2025, that holds two days of 2024 and one of 2025
C11_Witness ==
    /\ agg # Absent
    /\ agg.period = "weekly"
    /\ Len(df.rows) = 3
    /\ Len(agg.rows) = 1
    /\ Year(df.rows[1].date) = 2024
    /\ Year(df.rows[3].date) = 2025
    /\ agg.rows[1].year = 2025
    /\ agg.rows[1].date = DaysFromCivil(2024, 12, 30)

\* the rows of the table q are in strictly ascending order of date and of
\* (year, period)
Ascending(q) ==
    \A j \in 1..(Len(q) - 1) :
        /\ q[j].date < q[j + 1].date
        /\ \/ q[j].year < q[j + 1].year
           \/ (q[j].year = q[j + 1].year /\ q[j].period < q[j + 1].period)

\* C12: the daily table is in ascending date order and the rows of its weekly
\* and of its monthly aggregate are in strictly ascending order of date and
\* of (year, period).
C12_GroupsInOrder ==
    /\ df # Absent => \A i \in 1..(Len(df.rows) - 1) : df.rows[i].date < df.rows[i + 1].date
    /\ (agg # Absent /\ agg.period # "daily") => Ascending(agg.rows)

\* December 2024 before January 2025: the later group has the smaller period
C12_Witness ==
    /\ agg # Absent
    /\ agg.period = "monthly"
    /\ Len(agg.rows) = 2
    /\ agg.rows[1].year < agg.rows[2].year
    /\ agg.rows[1].period > agg.rows[2].period

\* C13: in every daily row cost_fixed is DAILY_FIXED_COST and
\* cost_equalization is MONTHLY_EQUALIZATION divided by the number of days of
\* the calendar month of the row's date (200 / 28 in February 2025), whatever
\* the preference flags of the call are.
C13_FixedCostsByDate ==
    df # Absent =>
        \A i \in Days(df) :
            /\ df.rows[i].cost_fixed = [ k |-> 100 * KMoney, q |-> 0, e |-> 0 ]
            /\ df.rows[i].cost_equalization.k = 0
            /\ df.rows[i].cost_equalization.e = 0
            /\ df.rows[i].cost_equalization.q * DaysInMonth(df.rows[i].date) = 200 * QDen
            /\ YearMonth(df.rows[i].date) = << 2025, 2 >> =>
                  df.rows[i].cost_equalization.q * 28 = 200 * QDen
            /\ YearMonth(df.rows[i].date) = << 2025, 6 >> =>
                  df.rows[i].cost_equalization.q * 30 = 200 * QDen
            /\ Month(df.rows[i].date) \in { 12, 1, 3, 7 } =>
                  df.rows[i].cost_equalization.q * 31 = 200 * QDen

\* a range from February into March generated with every preference on
C13_Witness ==
    /\ df # Absent
    /\ Len(df.rows) = 3
    /\ YearMonth(df.rows[1].date) = << 2025, 2 >>
    /\ YearMonth(df.rows[3].date) = << 2025, 3 >>
    /\ df.prefs.has_ev /\ df.prefs.has_heat_pump /\ df.prefs.has_hot_tub

RECURSIVE FracLess(_, _, _, _)
\* a / b < c / d for a, c >= 0 and b, d > 0, by the Euclidean expansion
FracLess(a, b, c, d) ==
    IF a \div b # c \div d THEN a \div b < c \div d
    ELSE IF c % d = 0 THEN FALSE
    ELSE IF a % b = 0 THEN TRUE
    ELSE FracLess(d, c % d, b, a % b)

\* the usage x1 under the scale s1 is strictly greater than the usage x2
\* under s2; both are values after the clip, so Zero is the value 0 and every
\* other value is positive
Exceeds(x1, s1, x2, s2) ==
    IF x2 = Zero THEN x1 # Zero
    ELSE IF x1 = Zero THEN FALSE
    ELSE \/ x1.k > x2.k /\ ~FracLess(x1.e, s1.den, x2.e, s2.den)
         \/ x1.k = x2.k /\ FracLess(x2.e, s2.den, x1.e, s1.den)

\* the table `on' has a positive energy_ev on every day and a greater
\* elec_usage than the table `off' on every day
EvAdds(on, off) ==
    \A i \in Days(on) :
        /\ on.rows[i].energy["energy_ev"] > 0
        /\ Exceeds(on.rows[i].elec_usage, on.scale, off.rows[i].elec_usage, off.scale)

\* the table the call of this step returns when has_ev is off and everything
\* else is as it is
WithoutEv == generate_data([ Session EXCEPT !.has_ev = FALSE ], rng, df'.start, df'.end).df

C14_Step == (IsCall /\ has_ev) => EvAdds(df', WithoutEv)

\* C14 as stated: for a fixed range a call with has_ev on returns a strictly
\* positive energy_ev on every day, and an elec_usage that is on every day
\* strictly greater than the one the same call returns with has_ev off.
C14_EvAdds == [][C14_Step]_vars

----------------------------------------------------------------------------
(* Summary queries over a table with no row for the requested period.       *)

\* values of date.today() around the ranges a session can generate
Todays ==
    { [ year |-> 2025, month |-> 1, day |-> 15 ],
      [ year |-> 2025, month |-> 2, day |-> 10 ],
      [ year |-> 2025, month |-> 8, day |-> 5 ] }

\* the calendar month before the month (year, month)
MonthBefore(ym) == IF ym[2] = 1 THEN << ym[1] - 1, 12 >> ELSE << ym[1], ym[2] - 1 >>

\* t has no row in the calendar month ym
NoRowIn(t, ym) == \A i \in Days(t) : YearMonth(t.rows[i].date) # ym

\* t has no row in the month ym on or before the day day_of_month
NoRowUpTo(t, ym, day_of_month) ==
    \A i \in Days(t) : \/ t.rows[i].date < DaysFromCivil(ym[1], ym[2], 1)
                       \/ t.rows[i].date > DaysFromCivil(ym[1], ym[2], day_of_month)

\* the three queries that answer an empty selection with zeros
ZeroWhenEmpty(t, today) ==
    /\ NoRowUpTo(t, << today.year, today.month >>, today.day)
          => get_month_to_date_costs(t, today.year, today.month, today.day) = ZeroCosts
    /\ NoRowIn(t, << today.year, today.month >>)
          => get_current_month_costs(t, today) = ZeroCosts
    /\ NoRowIn(t, MonthBefore(<< today.year, today.month >>))
          => get_last_month_costs(t, today) = ZeroCosts

\* C15 as stated: every one of the four summary queries, get_previous_month_costs
\* included, returns (0, 0, 0) when the table has no row for the requested period.
C15_Original ==
    df # Absent =>
        \A today \in Todays :
            /\ ZeroWhenEmpty(df, today)
            /\ NoRowIn(df, MonthBefore(MonthBefore(<< today.year, today.month >>)))
                  => get_previous_month_costs(df, today) = ZeroCosts

\* C15: get_month_to_date_costs, get_current_month_costs and get_last_month_costs
\* return (0, 0, 0) when the table has no row for the requested period, while
\* get_previous_month_costs returns the fallback (11500, 7500, 4000) then.
C15_EmptyPeriod ==
    df # Absent =>
        \A today \in Todays :
            /\ ZeroWhenEmpty(df, today)
            /\ NoRowIn(df, MonthBefore(MonthBefore(<< today.year, today.month >>)))
                  => get_previous_month_costs(df, today) = FallbackCosts

\* a table of June and July 2025 queried in January 2025 (no row for any of the
\* four periods) and in August 2025 (rows for last month and the month before)
C15_Witness ==
    /\ df # Absent
    /\ Len(df.rows) = 3
    /\ YearMonth(df.rows[1].date) = << 2025, 6 >>
    /\ YearMonth(df.rows[3].date) = << 2025, 7 >>
    /\ get_current_month_costs(df, [ year |-> 2025, month |-> 1, day |-> 15 ]) = ZeroCosts
    /\ get_last_month_costs(df, [ year |-> 2025, month |-> 1, day |-> 15 ]) = ZeroCosts
    /\ get_month_to_date_costs(df, 2025, 1, 15) = ZeroCosts
    /\ get_previous_month_costs(df, [ year |-> 2025, month |-> 1, day |-> 15 ]) = FallbackCosts
    /\ get_last_month_costs(df, [ year |-> 2025, month |-> 8, day |-> 5 ]) # ZeroCosts
    /\ get_previous_month_costs(df, [ year |-> 2025, month |-> 8, day |-> 5 ]) # FallbackCosts

----------------------------------------------------------------------------
(* Percentage changes of the monthly rollup.                                *)

\* p is the change of current against previous: 0 when previous is 0, and
\* otherwise (current / previous - 1) * 100 = 100 * (current - previous) / previous
IsChange(p, current, previous) ==
    IF previous = Zero
    THEN p.times = 0 /\ p.num = Zero
    ELSE /\ p.times = 100
         /\ p.den = previous
         /\ NumAdd(p.num, previous) = current

\* the sums of the rows of t with index in I: total, electricity, water
TotalsOver(t, I) ==
    << NumAdd(SumOver(t, "elec_total", I), SumOver(t, "water_total", I)),
       SumOver(t, "elec_total", I),
       SumOver(t, "water_total", I) >>

\* entry x of the overview carries the changes of cur against older, or none
\* when there is no older month
ChangesOf(x, cur, older) ==
    IF older = << >>
    THEN x.changes = << >>
    ELSE /\ Len(x.changes) = 3
         /\ \A n \in 1..3 : IsChange(x.changes[n], cur[n], older[n])

\* the newest of the months S
NextOlder(S) == CHOOSE k \in S : \A y \in S : y = k \/ KeyLess(y, k)

\* the sums of the newest month of S, where months[i] is the month of row i
TotalsBefore(t, months, S) ==
    IF S = {} THEN << >>
    ELSE TotalsOver(t, { i \in Days(t) : months[i] = NextOlder(S) })

\* o is the overview of t, where months[i] is the (year, month) of row i
RollupOf(o, t, months) ==
    /\ Len(o) = Cardinality({ months[i] : i \in Days(t) })
    /\ \A j \in 1..Len(o) :
          ChangesOf(o[j],
                    TotalsOver(t, { i \in Days(t) : months[i] = << o[j].year, o[j].month >> }),
                    TotalsBefore(t, months,
                                 { months[i] : i \in { i \in Days(t) :
                                       KeyLess(months[i], << o[j].year, o[j].month >>) } }))

RollupChanges(o, t) ==
    RollupOf(o, t, Series([ i \in Days(t) |-> YearMonth(t.rows[i].date) ]))

\* C16: calculate_percentage_change(current, previous) is 0 when previous is 0
\* and (current / previous - 1) * 100 otherwise; the monthly overview applies it
\* to the total, the electricity and the water cost of each month against the
\* next older month of the table, and the oldest month has no change.
C16_PercentageChange ==
    /\ \A c, p \in { Zero, One, NumAdd(One, One) } :
          IsChange(calculate_percentage_change(c, p), c, p)
    /\ df # Absent => RollupChanges(display_monthly_cost_overview(df), df)

\* an overview of two months: the newer one carries the three changes against
\* the older one, which carries none; every monthly amount holds the fixed
\* costs, so the case previous = 0 is met on direct arguments only
C16_Witness ==
    /\ df # Absent
    /\ Len(display_monthly_cost_overview(df)) = 2
    /\ KeyLess(<< display_monthly_cost_overview(df)[2].year,
                  display_monthly_cost_overview(df)[2].month >>,
               << display_monthly_cost_overview(df)[1].year,
                  display_monthly_cost_overview(df)[1].month >>)
    /\ \A n \in 1..3 : display_monthly_cost_overview(df)[1].changes[n].times = 100
    /\ display_monthly_cost_overview(df)[1].changes[3].den
          = display_monthly_cost_overview(df)[2].water
    /\ display_monthly_cost_overview(df)[2].changes = << >>
    /\ calculate_percentage_change(One, Zero) = ZeroPercent

----------------------------------------------------------------------------
(* Ranges that end before they start.                                       *)

\* the day number of a date of a date_key
DayOf(c) == DaysFromCivil(c.year, c.month, c.day)

\* after a call, date_key is the key of the range it was called with: set on a
\* miss, and equal to it on a hit
Degenerate(key) == DayOf(key[1]) > DayOf(key[2])

C17_Step ==
    (IsCall /\ Degenerate(date_key')) =>
        /\ df' # Absent
        /\ df'.rows = << >>

\* C17 as stated: a call of generate_data with start_date > end_date returns an
\* empty table and raises no exception.
C17_EmptyRange == [][C17_Step]_vars

\* the error is shown exactly by the runs that leave no table and change
\* nothing else
C18_Step ==
    /\ IsCall => /\ df' # Absent
                 /\ df'.start <= df'.end
                 /\ agg' # Absent
                 /\ ~error'
    /\ error' => /\ ~IsCall
                 /\ df' = Absent
                 /\ agg' = Absent
                 /\ UNCHANGED << has_hot_tub, hot_tub_type, has_ev, has_heat_pump,
                                 force_rerun, base_data, date_key, rng, time_grain,
                                 calls >>

\* C18: in every run of main generate_data is called only with
\* start_date <= end_date; a run with start_date > end_date shows the error and
\* returns without a table, an aggregate, or any change of the session state,
\* the cached base series and the random generator included.
C18_ValidatedRange == [][C18_Step]_vars

\* a run rejected after an earlier run has cached a base series, which it keeps
C18_Witness ==
    /\ error
    /\ df = Absent
    /\ calls > 0
    /\ base_data # Absent

----------------------------------------------------------------------------
(* The usage columns.                                                       *)

RECURSIVE CategoryValues(_, _)
\* the sum of the energy category values energy[c], c in S
CategoryValues(energy, S) ==
    IF S = {} THEN 0
    ELSE LET c == CHOOSE x \in S : TRUE
         IN  energy[c] + CategoryValues(energy, S \ {c})

\* max(0, x) for a usage x
MaxZero(x, kden, scale) == IF IsNegative(x, kden, scale) THEN Zero ELSE x

\* base_elec - (3 kWh with a heat pump) + the category values of the day
ElecFormula(base_elec_i, p, energy) ==
    [ k |-> base_elec_i - (IF p.has_heat_pump THEN 3 * KElec ELSE 0),
      q |-> 0,
      e |-> CategoryValues(energy, CategorySet) ]

\* base_water + (0.2 m3 with a geothermal hot tub) - (0.05 m3 with a heat pump)
WaterFormula(base_water_i, p) ==
    [ k |-> base_water_i
              + (IF p.has_hot_tub /\ p.hot_tub_type = "geothermal"
                 THEN (2 * KWater) \div 10 ELSE 0)
              - (IF p.has_heat_pump THEN (5 * KWater) \div 100 ELSE 0),
      q |-> 0,
      e |-> 0 ]

\* C19: on every day elec_usage = max(0, base_elec - (3 if has_heat_pump else 0)
\* + the sum of the energy category values of the day) and water_usage =
\* max(0, base_water + (0.2 if the hot tub is geothermal else 0)
\* - (0.05 if has_heat_pump else 0)).
C19_UsageFormula ==
    df # Absent =>
        \A i \in Days(df) :
            /\ df.rows[i].elec_usage
                  = MaxZero(ElecFormula(df.base.base_elec[i], df.prefs, df.rows[i].energy),
                            KElec, df.scale)
            /\ df.rows[i].water_usage
                  = MaxZero(WaterFormula(df.base.base_water[i], df.prefs), KWater, df.scale)

\* a table with a heat pump and a geothermal hot tub: one day of electricity is
\* floored at 0 and another is not, and a day whose base water draw is negative
\* has a positive water usage by the geothermal add
C19_Witness ==
    /\ df # Absent
    /\ df.prefs.has_heat_pump
    /\ df.prefs.has_hot_tub
    /\ df.prefs.hot_tub_type = "geothermal"
    /\ \E i, j \in Days(df) : df.rows[i].elec_usage = Zero /\ df.rows[j].elec_usage.e > 0
    /\ \E i \in Days(df) : df.base.base_water[i] < 0 /\ df.rows[i].water_usage.k > 0

----------------------------------------------------------------------------
(* The fixed daily adjustments.                                             *)

\* the flat part of the electricity of a day with preferences p
FlatElec(p) ==
    (IF p.has_ev THEN 10 * KElec ELSE 0)
    + (IF p.has_hot_tub /\ p.hot_tub_type = "electric" THEN 8 * KElec ELSE 0)
    - (IF p.has_heat_pump THEN 3 * KElec ELSE 0)

\* the flat part of the water of a day with preferences p
FlatWater(p) ==
    (IF p.has_hot_tub /\ p.hot_tub_type = "geothermal" THEN (2 * KWater) \div 10 ELSE 0)
    - (IF p.has_heat_pump THEN (5 * KWater) \div 100 ELSE 0)

\* C20 as stated: on every day that is not floored at 0, the usage is the base
\* draw plus the flat constants of the active adjustments (10 kWh for the EV,
\* 8 kWh for the electric hot tub, -3 kWh for the heat pump; 0.2 m3 for the
\* geothermal hot tub, -0.05 m3 for the heat pump), next to the category values,
\* the same constant on every day whatever the month and the draws.
C20_FlatAdjustments ==
    df # Absent =>
        \A i \in Days(df) :
            /\ df.rows[i].elec_usage # Zero =>
                  df.rows[i].elec_usage.k = df.base.base_elec[i] + FlatElec(df.prefs)
            /\ df.rows[i].water_usage # Zero =>
                  df.rows[i].water_usage.k = df.base.base_water[i] + FlatWater(df.prefs)

----------------------------------------------------------------------------
(* The normalisation.                                                       *)

\* C21: the normalisation multiplies every category column, the gated ones
\* included, by one factor, so that for every non-empty range and every
\* preference state the category columns summed over all days equal the sum
\* of all configured totals of ENERGY_CATEGORIES, whether or not the EV or the
\* electric hot tub is active; with a current sum of 0 the columns are left as
\* they are and nothing is divided.
C21_OneFactor ==
    /\ df # Absent =>
          /\ df.scale.den > 0
          /\ ScalesTo(df, EnergySum(df, CategorySet), TotalOf(CategorySet))
    /\ \A n \in 1..MaxDays : scaling_factor(0, n) = [ num |-> 1, den |-> n * 50 ]

\* several days with the EV active and no electric hot tub: energy_ev is
\* scaled with the other columns, energy_hot_tub is 0, and the active
\* categories are configured for less than the total reached
C21_Witness ==
    /\ df # Absent
    /\ Len(df.rows) > 1
    /\ df.prefs.has_ev
    /\ ~GateOpen("energy_hot_tub", df.prefs)
    /\ \A i \in Days(df) :
          df.rows[i].energy["energy_ev"] > 0 /\ df.rows[i].energy["energy_hot_tub"] = 0
    /\ TotalOf(Active(df.prefs)) < TotalOf(CategorySet)
    /\ ScalesTo(df, EnergySum(df, Active(df.prefs)), TotalOf(CategorySet))

----------------------------------------------------------------------------
(* The gated contributions.                                                 *)

\* the water added for the hot tub under the stored flags, in litres
TubWater == IF has_hot_tub /\ hot_tub_type = "geothermal" THEN 200 ELSE 0

\* base_water + add - (0.05 m3 with a heat pump), floored at 0
WaterWith(t, i, add) ==
    MaxZero([ k |-> t.base.base_water[i] + add - (IF has_heat_pump THEN 50 ELSE 0),
              q |-> 0, e |-> 0 ], KWater, t.scale)

\* C22: the gated contributions follow the preference flags: energy_ev is
\* nonzero only if has_ev, energy_hot_tub is nonzero only if has_hot_tub and
\* hot_tub_type is electric, the geothermal water add is applied only if
\* has_hot_tub and hot_tub_type is geothermal; with has_hot_tub false the
\* stored hot_tub_type has no effect, and the electric and the geothermal
\* contribution are never both nonzero.
C22_GatesFollowFlags ==
    df # Absent =>
        \A i \in Days(df) :
            /\ df.rows[i].energy["energy_ev"] # 0 => has_ev
            /\ df.rows[i].energy["energy_hot_tub"] # 0
                  => has_hot_tub /\ hot_tub_type = "electric"
            /\ df.rows[i].water_usage = WaterWith(df, i, TubWater)
            /\ ~has_hot_tub =>
                  /\ df.rows[i].energy["energy_hot_tub"] = 0
                  /\ df.rows[i].water_usage = WaterWith(df, i, 0)
            /\ ~(df.rows[i].energy["energy_hot_tub"] # 0 /\ TubWater # 0)

\* a table made with the EV on and the hot tub off while the stored type is
\* electric: energy_ev is positive and energy_hot_tub is 0 on every day
C22_Witness ==
    /\ df # Absent
    /\ Len(df.rows) > 1
    /\ has_ev /\ ~has_hot_tub /\ hot_tub_type = "electric"
    /\ \A i \in Days(df) :
          /\ df.rows[i].energy["energy_ev"] > 0
          /\ df.rows[i].energy["energy_hot_tub"] = 0
          /\ df.rows[i].water_usage = WaterWith(df, i, 0)

----------------------------------------------------------------------------
(* The month to date.                                                       *)

\* the (year, month, day_of_month) asked for
Cutoffs ==
    { << 2024, 12, 30 >>, << 2024, 12, 31 >>, << 2025, 1, 1 >>,
      << 2025, 2, 28 >>, << 2025, 6, 29 >> }

\* the rows of t dated from the first of the month to the day asked for
RowsToDate(t, c) ==
    { i \in Days(t) : /\ t.rows[i].date >= DaysFromCivil(c[1], c[2], 1)
                      /\ t.rows[i].date <= DaysFromCivil(c[1], c[2], c[3]) }

\* (elec + water, elec, water) summed over the rows I of t
CostsOver(t, I) ==
    << NumAdd(SumOver(t, "elec_total", I), SumOver(t, "water_total", I)),
       SumOver(t, "elec_total", I),
       SumOver(t, "water_total", I) >>

\* C23: get_month_to_date_costs(df, year, month, day_of_month) returns
\* (total, elec, water) where elec and water are the sums of elec_total and
\* water_total over exactly the rows whose date has that year and month and a
\* day <= day_of_month, and total = elec + water; rows of other months or of
\* later days never contribute.
C23_MonthToDate ==
    df # Absent =>
        \A c \in Cutoffs :
            get_month_to_date_costs(df, c[1], c[2], c[3]) = CostsOver(df, RowsToDate(df, c))

\* a table of 30 and 31 December 2024 and 1 January 2025 asked for December up
\* to the 30th: the first row alone is summed, although the day of the third
\* row (the 1st) is below the cutoff as well
C23_Witness ==
    /\ df # Absent
    /\ Len(df.rows) = 3
    /\ df.rows[1].date = DaysFromCivil(2024, 12, 30)
    /\ RowsToDate(df, << 2024, 12, 30 >>) = {1}
    /\ get_month_to_date_costs(df, 2024, 12, 30)
          = << NumAdd(df.rows[1].elec_total, df.rows[1].water_total),
               df.rows[1].elec_total, df.rows[1].water_total >>
    /\ get_month_to_date_costs(df, 2024, 12, 31) = CostsOver(df, {1, 2})
    /\ get_month_to_date_costs(df, 2025, 1, 1) = CostsOver(df, {3})

----------------------------------------------------------------------------
(* One cached range.                                                        *)

\* the first and the last day of the range stored under the key
KeyStart(key) == DaysFromCivil(key[1].year, key[1].month, key[1].day)
KeyEnd(key) == DaysFromCivil(key[2].year, key[2].month, key[2].day)

\* len(df) normal samples for each of the two series taken from state s on,
\* with the seasonal factors of the days
SeriesFrom(s, dates) ==
    BaseSeries(DrawSeq(NormalElecVals, s, 0, Len(dates)),
               DrawSeq(NormalWaterVals, s, Len(dates), Len(dates)),
               Series([ i \in 1..Len(dates) |-> Month(dates[i]) ]))

\* a generate_data call for the range of `key' made in the session ss with
\* the generator in state s misses the stored key and takes its two arrays
\* from the generator
DrawsAnew(ss, s, key) ==
    /\ CacheMiss(ss, key)
    /\ BaseArrays(ss, s, date_range(KeyStart(key), KeyEnd(key)), CacheMiss(ss, key))
          = SeriesFrom(s, date_range(KeyStart(key), KeyEnd(key)))

\* A call for another range than the stored one replaces base_data and
\* date_key, and a call for the range stored before, made in the session as
\* this call leaves it, draws its series from the generator again.
C24_Step ==
    (IsCall /\ base_data # Absent /\ date_key # RangeKey(df')) =>
        /\ date_key' = RangeKey(df')
        /\ base_data' = df'.base
        /\ df'.drawn
        /\ DrawsAnew(Session', rng', date_key)

FirstRange == DateKey(DaysFromCivil(2024, 12, 30), DaysFromCivil(2025, 1, 1))

----------------------------------------------------------------------------
(* The forced rerun.                                                        *)

\* the preferences of the table t are the stored ones
StoredPreferences(t) ==
    /\ t.prefs.has_hot_tub = has_hot_tub
    /\ t.prefs.has_ev = has_ev
    /\ t.prefs.has_heat_pump = has_heat_pump
    /\ has_hot_tub => t.prefs.hot_tub_type = hot_tub_type

\* No call is made with the flag set; the step that resets the flag generates
\* nothing and keeps the preferences; a call reads the stored preferences.
C25_Step ==
    /\ force_rerun => ~IsCall
    /\ (force_rerun /\ ~force_rerun') =>
          /\ df' = Absent
          /\ UNCHANGED << has_hot_tub, hot_tub_type, has_ev, has_heat_pump, rng, calls >>
    /\ IsCall =>
          /\ ~force_rerun'
          /\ UNCHANGED << has_hot_tub, hot_tub_type, has_ev, has_heat_pump >>
          /\ StoredPreferences(df')

\* C25: after any interleaving of the preference callbacks and runs of main,
\* main never reaches generate_data while force_rerun is True: it first resets
\* force_rerun to False and reruns, so the flag always returns to False and the
\* data generated next uses the preference value written by the callback.
C25_RerunFirst == [][C25_Step]_vars /\ (force_rerun ~> ~force_rerun)

\* a table generated with the EV and an electric hot tub, both written by
\* callbacks, after the flag they set has been reset
C25_Witness ==
    /\ ~force_rerun
    /\ calls > 0
    /\ df # Absent
    /\ has_ev /\ has_hot_tub /\ hot_tub_type = "electric"
    /\ df.prefs.has_ev
    /\ df.prefs.hot_tub_type = "electric"

====
